---------------------------- MODULE Spec2Model ----------------------------
(***************************************************************************)
(* Model of moveit::core::RevoluteJointModel                               *)
(* (src/robot_model2/src/revolute_joint_model.cpp) and of the dense value  *)
(* setter of planning_models::KinematicState                               *)
(* (src/planning_models/include/planning_models/kinematic_state.h).        *)
(*                                                                         *)
(* Angles are exact integers counted in ticks, with pi = PI ticks.  The    *)
(* operands of a call are whole steps (multiples of TDen ticks) and a      *)
(* fraction t in [0,1] is a numerator over TDen, so that every product     *)
(* diff * t of the code is an exact number of ticks.  Rounding of double   *)
(* arithmetic is not modelled.                                             *)
(***************************************************************************)
EXTENDS Integers, Sequences, FiniteSets

\* ------------------------------------------------------------------ bounds
\* Steps in half a turn: pi is PiSteps steps.
PiSteps == 2
\* Denominator of the fractions t and of the generator's draws; ticks per step.
TDen == 2
\* Largest margin / sampling distance of a call, in steps.
MaxSpan == 1
\* Number of variables of the kinematic model used for the state setters.
VariableCount == 2
\* Largest joint value handed to a state setter.
MaxJointValue == 3

\* boost::math::constants::pi<double>() in ticks.
PI == PiSteps * TDen

\* Operand values of a call: every whole step in [-2 pi, 2 pi].
Values == { s * TDen : s \in (-2 * PiSteps)..(2 * PiSteps) }
\* Margins and sampling distances of a call (one negative one included).
Spans == { s * TDen : s \in (-1)..MaxSpan }
\* Values a state setter may be handed for one variable.
JointValues == 0..MaxJointValue
\* Fractions in [0, 1], as numerators over TDen.
Fractions == 0..TDen
\* The Bounds argument of a call: min <= max, each one of three positions.
BoundPositions == { -PI, 0, PI }
BoundsArgs == { b \in [min_position_ : BoundPositions, max_position_ : BoundPositions] :
                  b.min_position_ <= b.max_position_ }

VARIABLES
  continuous_,          \* RevoluteJointModel::continuous_
  variable_bounds_,     \* JointModel::variable_bounds_[0]
  values1, values2,     \* the value operands of the call (values / from,to / near)
  t,                    \* the fraction operand (numerator over TDen)
  span,                 \* the margin or distance operand
  bounds,               \* the Bounds operand
  op,                   \* the member function that ran last
  out,                  \* the value it wrote (values[0] / state[0]) or returned
  ret,                  \* the boolean it returned
  fault,                \* TRUE when the call tripped the generator's assertion
  joint_state_values,   \* KinematicState: the value of every variable, in order
  arg_size              \* how many values the last state setter was handed

vars == << continuous_, variable_bounds_, values1, values2, t, span, bounds,
           op, out, ret, fault, joint_state_values, arg_size >>

jointVars == << continuous_, variable_bounds_ >>
operands == << values1, values2, t, span, bounds >>
stateVars == << joint_state_values, arg_size >>

\* ----------------------------------------------------------------- helpers
\* fabs
Abs(x) == IF x < 0 THEN -x ELSE x

\* std::max, std::min
Max(x, y) == IF x < y THEN y ELSE x
Min(x, y) == IF y < x THEN y ELSE x

\* C fmod: the remainder has the sign of the dividend (y > 0 here).
fmod(x, y) == IF x >= 0 THEN x % y ELSE -((-x) % y)

\* d * t for a fraction t = j / TDen; exact, d being a multiple of TDen.
Scale(d, j) == IF d >= 0 THEN (d * j) \div TDen ELSE -(((-d) * j) \div TDen)


\* ------------------------------------------------- RevoluteJointModel (pure)
\* The Bounds the constructor and setContinuous(true) install: [-pi, pi].
FullTurnBounds(bounded) ==
  [position_bounded_ |-> bounded, min_position_ |-> -PI, max_position_ |-> PI]

\* setContinuous(flag): the new variable_bounds_[0]; continuous_ is not assigned.
setContinuous(flag) ==
  IF flag
    THEN FullTurnBounds(FALSE)
    ELSE [variable_bounds_ EXCEPT !.position_bounded_ = TRUE]

\* enforceBounds with the clamp to max_position_ left out.
enforceBounds_NoUpperClamp(v, b) ==
  IF continuous_
    THEN LET w == fmod(v, 2 * PI)
         IN  IF w < -PI THEN w + 2 * PI
             ELSE IF w > PI THEN w - 2 * PI
             ELSE w
    ELSE IF v < b.min_position_ THEN b.min_position_ ELSE v

\* enforceBounds(values, bounds): the value left in values[0].
enforceBounds(v, b) ==
  IF continuous_
    THEN LET w == fmod(v, 2 * PI)
         IN  IF w < -PI THEN w + 2 * PI
             ELSE IF w > PI THEN w - 2 * PI
             ELSE w
    ELSE IF v < b.min_position_ THEN b.min_position_
         ELSE IF v > b.max_position_ THEN b.max_position_
         ELSE v

\* satisfiesBounds rejecting a value that sits exactly on a bound.
satisfiesBounds_Exclusive(v, b, margin) ==
  IF continuous_ THEN TRUE
  ELSE IF v <= b.min_position_ - margin \/ v >= b.max_position_ + margin THEN FALSE
  ELSE TRUE

\* satisfiesBounds(values, bounds, margin)
satisfiesBounds(v, b, margin) ==
  IF continuous_ THEN TRUE
  ELSE IF v < b.min_position_ - margin \/ v > b.max_position_ + margin THEN FALSE
  ELSE TRUE

\* distance with the fabs left out.
distance_Signed(v1, v2) ==
  IF continuous_
    THEN LET d == v1 - v2
         IN  IF d > PI THEN 2 * PI - d ELSE d
    ELSE v1 - v2

\* distance(values1, values2)
distance(v1, v2) ==
  IF continuous_
    THEN LET d == Abs(v1 - v2)
         IN  IF d > PI THEN 2 * PI - d ELSE d
    ELSE Abs(v1 - v2)

\* interpolate taking the raw linear blend in continuous mode too.
interpolate_Linear(from, to, j) == from + Scale(to - from, j)

\* interpolate(from, to, t, state) with t = j / TDen: the value left in state[0].
interpolate(from, to, j) ==
  IF continuous_
    THEN LET diff == to - from
         IN  IF Abs(diff) <= PI
               THEN from + Scale(diff, j)
               ELSE LET arc == IF diff > 0 THEN 2 * PI - diff ELSE -2 * PI - diff
                        s   == from - Scale(arc, j)
                    IN  IF s > PI THEN s - 2 * PI
                        ELSE IF s < -PI THEN s + 2 * PI
                        ELSE s
    ELSE from + Scale(to - from, j)

\* The interval getVariableRandomValuesNearBy hands to rng.uniformReal.
samplingLower(b, near, dist) ==
  IF continuous_ THEN near - dist ELSE Max(b.min_position_, near - dist)
samplingUpper(b, near, dist) ==
  IF continuous_ THEN near + dist ELSE Min(b.max_position_, near + dist)

\* rng.uniformReal(lower, upper) for the draw u / TDen of the generator:
\* (upper - lower) * u + lower.
uniformReal(lower, upper, u) == lower + Scale(upper - lower, u)

\* getVariableRandomValuesNearBy: the value left in values[0] for the draw u.
getVariableRandomValuesNearBy(b, near, dist, u) ==
  LET drawn == uniformReal(samplingLower(b, near, dist), samplingUpper(b, near, dist), u)
  IN  IF continuous_ THEN enforceBounds(drawn, b) ELSE drawn

\* --------------------------------------------------------------- joint steps
\* RevoluteJointModel(name): continuous_ false, bounded [-pi, pi].
Constructed ==
  /\ continuous_ = FALSE
  /\ variable_bounds_ = FullTurnBounds(TRUE)

\* The operands a caller may hand to the joint's member functions.
OperandsChosen ==
  /\ values1 \in Values
  /\ values2 \in Values
  /\ t \in Fractions
  /\ span \in Spans
  /\ bounds \in BoundsArgs

NothingCalled ==
  /\ op = "constructor"
  /\ out = 0
  /\ ret = FALSE
  /\ fault = FALSE

StateConstructed ==
  /\ joint_state_values = [i \in 1..VariableCount |-> 0]
  /\ arg_size = 0

Init ==
  /\ Constructed
  /\ OperandsChosen
  /\ NothingCalled
  /\ StateConstructed

SetContinuous ==
  \E flag \in BOOLEAN :
    /\ variable_bounds_' = setContinuous(flag)
    /\ op' = "setContinuous"
    /\ ret' = flag
    /\ out' = 0
    /\ fault' = FALSE
    /\ UNCHANGED << continuous_, operands, stateVars >>

SatisfiesBounds ==
  /\ op' = "satisfiesBounds"
  /\ ret' = satisfiesBounds(values1, bounds, span)
  /\ out' = values1
  /\ fault' = FALSE
  /\ UNCHANGED << jointVars, operands, stateVars >>

EnforceBounds ==
  /\ op' = "enforceBounds"
  /\ out' = enforceBounds(values1, bounds)
  /\ ret' = FALSE
  /\ fault' = FALSE
  /\ UNCHANGED << jointVars, operands, stateVars >>

Distance ==
  /\ op' = "distance"
  /\ out' = distance(values1, values2)
  /\ ret' = FALSE
  /\ fault' = FALSE
  /\ UNCHANGED << jointVars, operands, stateVars >>

Interpolate ==
  /\ op' = "interpolate"
  /\ out' = interpolate(values1, values2, t)
  /\ ret' = FALSE
  /\ fault' = FALSE
  /\ UNCHANGED << jointVars, operands, stateVars >>

\* The generator asserts lower <= upper; a build without assertions computes
\* (upper - lower) * u + lower all the same.
GetVariableRandomValuesNearBy ==
  \E u \in Fractions, asserting \in BOOLEAN :
    /\ op' = "getVariableRandomValuesNearBy"
    /\ fault' = (asserting /\ samplingLower(bounds, values1, span) > samplingUpper(bounds, values1, span))
    /\ out' = IF fault' THEN 0 ELSE getVariableRandomValuesNearBy(bounds, values1, span, u)
    /\ ret' = FALSE
    /\ UNCHANGED << jointVars, operands, stateVars >>

JointNext ==
  \/ SetContinuous
  \/ SatisfiesBounds
  \/ EnforceBounds
  \/ Distance
  \/ Interpolate
  \/ GetVariableRandomValuesNearBy

Next == JointNext

Spec == Init /\ [][Next]_vars

\* A joint the model builder has configured: continuous_ holds either value,
\* with position_bounded_ its opposite.
Configured ==
  /\ continuous_ \in BOOLEAN
  /\ variable_bounds_ = FullTurnBounds(~continuous_)

InitConfigured ==
  /\ Configured
  /\ OperandsChosen
  /\ NothingCalled
  /\ StateConstructed

SpecConfigured == InitConfigured /\ [][Next]_vars

\* ------------------------------------------------------------ KinematicState
\* The names a name->value map may hold: the model's variables 1..VariableCount
\* and 0, a name the model does not know.
MapNames == 0..VariableCount

\* setStateValues(const std::vector<double>&): the boolean returned.
setStateValuesAccepts(vec) == Len(vec) = VariableCount

\* setStateValues writing the values it was handed before checking their number.
setStateValues_Partial(vec) ==
  [i \in 1..VariableCount |-> IF i <= Len(vec) THEN vec[i] ELSE joint_state_values[i]]

\* setStateValues(const std::vector<double>&): the joint state values left.
setStateValues(vec) ==
  IF setStateValuesAccepts(vec)
    THEN [i \in 1..VariableCount |-> vec[i]]
    ELSE joint_state_values

\* setStateValues(const std::map<std::string, double>&): the joint state values
\* left; names the model does not know are ignored.
setStateValuesFromMap(m) ==
  [i \in 1..VariableCount |-> IF i \in DOMAIN m THEN m[i] ELSE joint_state_values[i]]

\* The operands play no part in the state setters: one choice of them.
OperandsFixed ==
  /\ values1 = 0
  /\ values2 = 0
  /\ t = 0
  /\ span = 0
  /\ bounds = [min_position_ |-> -PI, max_position_ |-> PI]

InitState ==
  /\ Constructed
  /\ OperandsFixed
  /\ NothingCalled
  /\ StateConstructed

SetStateValues ==
  \E n \in 0..(VariableCount + 1) :
    \E vec \in [1..n -> JointValues] :
      /\ joint_state_values' = setStateValues(vec)
      /\ ret' = setStateValuesAccepts(vec)
      /\ arg_size' = Len(vec)
      /\ op' = "setStateValues"
      /\ UNCHANGED << jointVars, operands, out, fault >>

SetStateValuesFromMap ==
  \E names \in SUBSET MapNames :
    \E m \in [names -> JointValues] :
      /\ joint_state_values' = setStateValuesFromMap(m)
      /\ ret' = FALSE
      /\ arg_size' = Cardinality(names)
      /\ op' = "setStateValuesFromMap"
      /\ UNCHANGED << jointVars, operands, out, fault >>

SetToDefaultValues ==
  /\ joint_state_values' = [i \in 1..VariableCount |-> 0]
  /\ ret' = FALSE
  /\ arg_size' = 0
  /\ op' = "setToDefaultValues"
  /\ UNCHANGED << jointVars, operands, out, fault >>

StateNext ==
  \/ SetStateValues
  \/ SetStateValuesFromMap
  \/ SetToDefaultValues

SpecState == InitState /\ [][StateNext]_vars

\* ------------------------------------------------------------------- claims
\* A value operand within the joint's bounds [-pi, pi].
WithinBounds(v) == -PI <= v /\ v <= PI
\* A value operand in the canonical interval (-pi, pi].
Canonical(v) == -PI < v /\ v <= PI

\* The continuous flag is set: the member continuous_ holds, or setContinuous(true)
\* was the last setContinuous call (which is what leaves position_bounded_ false).
ContinuousFlagSet == continuous_ \/ ~variable_bounds_.position_bounded_

\* C1: once setContinuous(true) is the last setContinuous call (which leaves
\* position_bounded_ false), satisfiesBounds returns true for every value and
\* every margin.
C1_SatisfiesBoundsAfterSetContinuous ==
  (op = "satisfiesBounds" /\ ~variable_bounds_.position_bounded_) => ret = TRUE

\* C2: with the continuous flag set, enforceBounds leaves a value in (-pi, pi]
\* that differs from the input by a multiple of 2 pi.
C2_EnforceBoundsCanonical ==
  (op = "enforceBounds" /\ ContinuousFlagSet) =>
    /\ Canonical(out)
    /\ (out - values1) % (2 * PI) = 0

\* C3: on a non-continuous joint enforceBounds maps a value below min to min, a
\* value above max to max, and leaves a value in [min, max] as it is.
C3_EnforceBoundsClamps ==
  (op = "enforceBounds" /\ ~continuous_) =>
    /\ values1 < bounds.min_position_ => out = bounds.min_position_
    /\ values1 > bounds.max_position_ => out = bounds.max_position_
    /\ (bounds.min_position_ <= values1 /\ values1 <= bounds.max_position_) => out = values1

C3_Witness ==
  /\ op = "enforceBounds"
  /\ ~continuous_
  /\ values1 > bounds.max_position_
  /\ bounds.min_position_ < bounds.max_position_
  /\ out = bounds.max_position_

C5_ContinuousDistanceRange ==
  (op = "distance" /\ ContinuousFlagSet) => (0 <= out /\ out <= PI)

\* C6: in either mode distance is symmetric and obeys the triangle inequality
\* for all values within [-pi, pi].
C6_DistanceIsMetric ==
  (op = "distance" /\ WithinBounds(values1) /\ WithinBounds(values2)) =>
    /\ out = distance(values2, values1)
    /\ \A c \in { v \in Values : WithinBounds(v) } :
         distance(values1, c) <= out + distance(values2, c)

C6_Witness ==
  /\ op = "distance"
  /\ continuous_
  /\ WithinBounds(values1) /\ WithinBounds(values2)
  /\ values1 - values2 > PI
  /\ out = 2 * PI - (values1 - values2)

\* C7: a dense setStateValues whose vector length differs from the variable
\* count returns false and leaves every joint state value as it was.
C7_WrongLengthLeavesState ==
  [][ (op' = "setStateValues" /\ arg_size' # VariableCount) =>
        (ret' = FALSE /\ joint_state_values' = joint_state_values) ]_vars

C7_Witness ==
  /\ op = "setStateValues"
  /\ arg_size = VariableCount + 1
  /\ ret = FALSE
  /\ \A i \in 1..VariableCount : joint_state_values[i] # 0

\* C8: on a non-continuous joint every value getVariableRandomValuesNearBy
\* produces with distance >= 0 lies in [near - distance, near + distance] and
\* in [min, max], the interval handed to the generator having lower <= upper.
C8_NearBySampleInRange ==
  (op = "getVariableRandomValuesNearBy" /\ ~continuous_ /\ span >= 0) =>
    /\ ~fault
    /\ samplingLower(bounds, values1, span) <= samplingUpper(bounds, values1, span)
    /\ values1 - span <= out /\ out <= values1 + span
    /\ bounds.min_position_ <= out /\ out <= bounds.max_position_

\* C9: with the continuous flag set, for from and to within [-pi, pi] and t in
\* [0, 1], distance(from, interpolate(from, to, t)) = t * distance(from, to).
C9_InterpolateShortestArc ==
  (op = "interpolate" /\ ContinuousFlagSet /\ WithinBounds(values1) /\ WithinBounds(values2)) =>
    distance(values1, out) = Scale(distance(values1, values2), t)

C9_Witness ==
  /\ op = "interpolate"
  /\ continuous_
  /\ WithinBounds(values1) /\ WithinBounds(values2)
  /\ Abs(values2 - values1) > PI
  /\ 0 < t /\ t < TDen
  /\ out # values1

C11_EnforceBoundsIdempotent ==
  (op = "enforceBounds" /\ bounds.min_position_ <= bounds.max_position_) =>
    /\ enforceBounds(out, bounds) = out
    /\ satisfiesBounds(out, bounds, 0) = TRUE

C11_Witness ==
  /\ op = "enforceBounds"
  /\ bounds.min_position_ < bounds.max_position_
  /\ out # values1
  /\ \/ continuous_ /\ values1 > PI /\ out = values1 - 2 * PI
     \/ ~continuous_ /\ values1 < bounds.min_position_ /\ out = bounds.min_position_

=============================================================================
